---------------------------- MODULE Spec2Model ----------------------------
(***************************************************************************)
(* Model of the crocodile-occurrence dashboard (src/src/app.py,            *)
(* src/src/visualization.py, src/src/components.py): the cached loaders    *)
(* and their CRS handling, the cleaner, the species filter, the species    *)
(* ranking, the per-country species-richness aggregation with its colour   *)
(* scale, the point maps and the metrics dashboard.                        *)
(*                                                                         *)
(* A table (pandas / geopandas frame) is a record                          *)
(*     [columns : set of column names,                                     *)
(*      index   : sequence of index labels,                                *)
(*      rows    : sequence of rows, a row a function column -> cell,       *)
(*      crs     : the coordinate reference system, a cell,                 *)
(*      geo     : TRUE for a GeoDataFrame, FALSE for a plain DataFrame].   *)
(* A cell is <<>> (None / NaN) or <<v>> (the value v).                     *)
(* A point geometry is [x |-> cell, y |-> cell]; a polygon is              *)
(* [interior |-> set of <<x, y>>, border |-> set of <<x, y>>].             *)
(***************************************************************************)
EXTENDS Integers, Sequences, FiniteSets, TLC

(* ------------------------------ bounds --------------------------------- *)
\* longest occurrence file with rows of every kind
MaxRows == 2
\* longest occurrence file whose rows differ in the species only
MaxRankRows == 3
\* largest number of rows of the boundary file
MaxCountries == 2
\* largest top_n handed to the species ranking
MaxTopN == 2

(* ------------------------------- cells --------------------------------- *)
Null == << >>
Some(v) == << v >>
IsNull(c) == c = Null
NotNull(c) == c # Null

KeyError == "KeyError"

\* The outcome of a call: the value it returns, or the exception it raises.
Ok(v) == [error |-> "", value |-> Some(v)]
Raise(e) == [error |-> e, value |-> Null]
Raised(r) == r.error # ""
ValueOf(r) == r.value[1]

EmptyTable == [columns |-> {}, index |-> << >>, rows |-> << >>, crs |-> Null, geo |-> FALSE]

SpeciesIds == {"Crocodylus acutus", "Caiman crocodilus"}
SpeciesCells == {Null} \cup {Some(s) : s \in SpeciesIds}

SeqsUpTo(S, n) == UNION {[1..k -> S] : k \in 0..n}

Min(a, b) == IF a <= b THEN a ELSE b

(* ------------------------- the occurrence file ------------------------- *)
\* A line of the occurrence TSV, before the loader numbers it.
\* Points: (x 0, y 0) lies inside the first country, (x 1, y 0) on the
\* border the first and the second country share.
GeneralKinds ==
    {[species |-> s, decimalLatitude |-> Some(0), decimalLongitude |-> Some(0)] :
        s \in SpeciesCells}
    \cup {[species |-> Some(s), decimalLatitude |-> Some(0), decimalLongitude |-> Some(1)] :
        s \in SpeciesIds}
    \cup {[species |-> Some("Crocodylus acutus"), decimalLatitude |-> Null,
           decimalLongitude |-> Some(0)],
          [species |-> Some("Crocodylus acutus"), decimalLatitude |-> Some(0),
           decimalLongitude |-> Null]}

RankKinds ==
    {[species |-> s, decimalLatitude |-> Some(0), decimalLongitude |-> Some(0)] :
        s \in SpeciesCells}

GeneralFiles == SeqsUpTo(GeneralKinds, MaxRows)
RankFiles == SeqsUpTo(RankKinds, MaxRankRows)
\* the files of at most one row
ShortFiles == SeqsUpTo(GeneralKinds, 1)
OccurrenceFiles == GeneralFiles \cup RankFiles

\* The columns of the TSV: the four the cleaner keeps and one it drops.
FileColumns ==
    {"gbifID", "species", "acceptedScientificName", "decimalLatitude", "decimalLongitude"}

FileRow(f, i) ==
    [gbifID |-> Some(i),
     species |-> f[i].species,
     acceptedScientificName |-> f[i].species,
     decimalLatitude |-> f[i].decimalLatitude,
     decimalLongitude |-> f[i].decimalLongitude]

\* gpd.points_from_xy: one point per row, NaN coordinates kept as they are.
points_from_xy(x, y) == [x |-> x, y |-> y]

\* load_crocodiles_data: every column of the file, every row, plus the
\* geometry, tagged crs="EPSG:4326".
load_crocodiles_data(f) ==
    [columns |-> FileColumns \cup {"geometry"},
     index |-> [i \in 1..Len(f) |-> i - 1],
     rows |-> [i \in 1..Len(f) |->
                FileRow(f, i) @@
                ("geometry" :> Some(points_from_xy(f[i].decimalLongitude,
                                                   f[i].decimalLatitude)))],
     crs |-> Some("EPSG:4326"),
     geo |-> TRUE]

(* -------------------------- the boundary file -------------------------- *)
CountryNames == <<"Xland", "Yland", "Zland", "Wland">>

\* The i-th country: its interior holds the point (2(i-1), 0), its borders
\* the points (2i-3, 0) and (2i-1, 0), the latter shared with country i+1.
Polygon(i) ==
    [interior |-> {<<2 * (i - 1), 0>>},
     border |-> {<<2 * i - 3, 0>>, <<2 * i - 1, 0>>}]

\* A coordinate pair in degrees (EPSG:4326) as EPSG:3857 writes it, and back.
\* On the equator, the only latitude of the model, the Web Mercator
\* projection is linear: 111319 metres to the degree of longitude, y = 0.
ToMercator(p) == <<p[1] * 111319, p[2] * 111319>>
FromMercator(p) == <<p[1] \div 111319, p[2] \div 111319>>

\* A polygon with every coordinate pair transformed from one CRS to another.
Transform(polygon, from, to) ==
    LET F(p) == IF from = "EPSG:4326" /\ to = "EPSG:3857" THEN ToMercator(p)
                ELSE IF from = "EPSG:3857" /\ to = "EPSG:4326" THEN FromMercator(p)
                ELSE p
    IN  [interior |-> {F(p) : p \in polygon.interior},
         border |-> {F(p) : p \in polygon.border}]

\* The polygon of country i with its coordinates written in the file's CRS:
\* metres when the file declares EPSG:3857, degrees otherwise.
FilePolygon(i, crs) ==
    IF crs = Some("EPSG:3857")
    THEN Transform(Polygon(i), "EPSG:4326", "EPSG:3857")
    ELSE Polygon(i)

\* The rows of a boundary file: row i named CountryNames[i], its geometry
\* the polygon, or missing in the row numbered missing.
BoundaryRows(k, missing, crs) ==
    [i \in 1..k |-> [NAME |-> Some(CountryNames[i]),
                     ADMIN |-> Some(CountryNames[i]),
                     geometry |-> IF i = missing THEN Null
                                  ELSE Some(FilePolygon(i, crs))]]

\* The boundary files that declare EPSG:4326: k rows, the last one with or
\* without its geometry.
DeclaredFiles ==
    UNION {{[crs |-> Some("EPSG:4326"),
             rows |-> BoundaryRows(k, missing, Some("EPSG:4326"))] :
              missing \in {0, k}} : k \in 0..MaxCountries}

\* The boundary files that declare no CRS, or EPSG:3857.
OtherCrsFiles ==
    {[crs |-> c, rows |-> BoundaryRows(k, 0, c)] :
        c \in {Null, Some("EPSG:3857")}, k \in 0..MaxCountries}

CountryFiles == DeclaredFiles \cup OtherCrsFiles

CountryColumns == {"NAME", "ADMIN", "geometry"}

\* gpd.read_file: the rows of the file as they are, with the CRS the file
\* declares.
read_file(f) ==
    [columns |-> CountryColumns,
     index |-> [i \in 1..Len(f.rows) |-> i - 1],
     rows |-> f.rows,
     crs |-> f.crs,
     geo |-> TRUE]

\* gdf.to_crs with the tag only: the coordinates stay as they are.
to_crs_relabel(gdf, crs) == [gdf EXCEPT !.crs = Some(crs)]

\* gdf.set_crs(crs): the tag only; every coordinate stays as it is.
set_crs(gdf, crs) == [gdf EXCEPT !.crs = Some(crs)]

\* gdf.to_crs(crs): every coordinate of every geometry is transformed from
\* the table's CRS to crs, and the table is tagged crs.
to_crs(gdf, crs) ==
    [gdf EXCEPT
       !.crs = Some(crs),
       !.rows = [i \in 1..Len(gdf.rows) |->
                   [gdf.rows[i] EXCEPT
                      !["geometry"] = IF IsNull(@) THEN @
                                      ELSE Some(Transform(@[1], gdf.crs[1], crs))]]]

\* load_country_data: set_crs when the file declares no CRS, to_crs when it
\* declares another one than EPSG:4326, the table as read otherwise.
load_country_data(f) ==
    LET gdf == read_file(f)
    IN  IF IsNull(gdf.crs)
        THEN set_crs(gdf, "EPSG:4326")
        ELSE IF gdf.crs[1] # "EPSG:4326"
        THEN to_crs(gdf, "EPSG:4326")
        ELSE gdf

(* ------------------------------ cleaning ------------------------------- *)
CleanColumns ==
    {"species", "acceptedScientificName", "decimalLatitude", "decimalLongitude", "geometry"}

\* data.rename(columns=...): the new name of a column.
Renamed(c) ==
    CASE c = "species" -> "Especie"
      [] c = "acceptedScientificName" -> "Nombre científico"
      [] c = "decimalLatitude" -> "Latitud"
      [] c = "decimalLongitude" -> "Longitud"
      [] OTHER -> c

RenameRow(r, cols) ==
    LET new == {Renamed(c) : c \in cols}
    IN  [n \in new |-> r[CHOOSE c \in cols : Renamed(c) = n]]

\* pd.DataFrame(data=t): the same columns, labels and rows in a frame that
\* is no GeoDataFrame and has no CRS.
DataFrame(t) == [t EXCEPT !.geo = FALSE, !.crs = Null]

\* gpd.GeoDataFrame(data=t, geometry="geometry", crs=crs)
GeoDataFrame(t, crs) == [t EXCEPT !.geo = TRUE, !.crs = crs]

\* clean_crocodile_data: data.loc[:, columns] raises KeyError when a column
\* is missing; otherwise the five columns are kept and renamed, every row and
\* every index label is kept.  A frame that is no GeoDataFrame gets its
\* geometry from Longitud and Latitud and the CRS EPSG:4326.
clean_crocodile_data(data) ==
    IF ~(CleanColumns \subseteq data.columns)
    THEN Raise(KeyError)
    ELSE LET renamed ==
                 [columns |-> {Renamed(c) : c \in CleanColumns},
                  index |-> data.index,
                  rows |-> [i \in 1..Len(data.rows) |->
                             RenameRow(data.rows[i], CleanColumns)],
                  crs |-> data.crs,
                  geo |-> data.geo]
         IN  IF renamed.geo
             THEN Ok(GeoDataFrame(renamed, renamed.crs))
             ELSE Ok(GeoDataFrame(
                        [renamed EXCEPT
                           !.rows = [i \in 1..Len(renamed.rows) |->
                                       [renamed.rows[i] EXCEPT
                                          !["geometry"] =
                                              Some(points_from_xy(
                                                      renamed.rows[i]["Longitud"],
                                                      renamed.rows[i]["Latitud"]))]]],
                        Some("EPSG:4326")))

(* ------------------------------ filtering ------------------------------ *)
\* The cells of one column, in row order.
Column(t, c) == [i \in 1..Len(t.rows) |-> t.rows[i][c]]

\* Series.dropna().unique(): the values of the non-null cells.
Unique(col) == {col[i][1] : i \in {j \in DOMAIN col : NotNull(col[j])}}

\* isin with a null cell taken to be in every list of values.
isin_null_matches(col, values) ==
    [i \in DOMAIN col |-> IsNull(col[i]) \/ col[i][1] \in values]

\* Series.isin(values): the boolean mask; a null cell is in no list of values.
isin(col, values) == [i \in DOMAIN col |-> NotNull(col[i]) /\ col[i][1] \in values]

Positions(n) == [i \in 1..n |-> i]

\* data[mask]: the rows whose mask is True, with their index labels, in order.
BoolIndex(t, mask) ==
    LET keep == SelectSeq(Positions(Len(t.rows)), LAMBDA i : mask[i])
    IN  [columns |-> t.columns,
         index |-> [k \in 1..Len(keep) |-> t.index[keep[k]]],
         rows |-> [k \in 1..Len(keep) |-> t.rows[keep[k]]],
         crs |-> t.crs,
         geo |-> t.geo]

\* The filter without its "if selected_species else data".
FilterSpeciesAlways(t, selected_species) ==
    BoolIndex(t, isin(Column(t, "Especie"), selected_species))

\* data[data["Especie"].isin(selected_species)] if selected_species else data
FilterSpecies(t, selected_species) ==
    IF selected_species # {}
    THEN BoolIndex(t, isin(Column(t, "Especie"), selected_species))
    ELSE t

(* --------------------------- species ranking --------------------------- *)
CountOf(col, v) == Cardinality({i \in DOMAIN col : col[i] = Some(v)})

Orderings(S) ==
    {s \in [1..Cardinality(S) -> S] : \A i, j \in DOMAIN s : i # j => s[i] # s[j]}

\* Series.sort_values(ascending=False) on the counts, called without
\* kind="stable": every order of the keys in which the counts never increase
\* is a result the sort may produce; equal counts come in any order.
sort_values(counts) ==
    {s \in Orderings(DOMAIN counts) :
        \A i, j \in DOMAIN s : i < j => counts[s[i]] >= counts[s[j]]}

\* Series.value_counts(): null cells are dropped, each other value comes with
\* the number of its rows; the results the sort allows, each a sequence of
\* <<value, count>>.
value_counts(col) ==
    LET counts == [v \in Unique(col) |-> CountOf(col, v)]
    IN  {[i \in DOMAIN s |-> <<s[i], counts[s[i]]>>] : s \in sort_values(counts)}

\* head that takes one row too many.
head_one_more(s, n) == SubSeq(s, 1, Min(n + 1, Len(s)))

\* DataFrame.head(n) for n >= 0: the first n rows, all of them when fewer.
head(s, n) == SubSeq(s, 1, Min(n, Len(s)))

\* reset_index() and the naming of the two columns (pandas 2: the counts
\* come as the column "count", the keys under the name of their column).
RankTable(vc, keyName, countName) ==
    [columns |-> {keyName, countName},
     index |-> [i \in 1..Len(vc) |-> i - 1],
     rows |-> [i \in 1..Len(vc) |->
                (keyName :> Some(vc[i][1])) @@ (countName :> Some(vc[i][2]))],
     crs |-> Null,
     geo |-> FALSE]

\* compute_species_counts (app.py): the tables it may return.
compute_species_counts(t, top_n) ==
    {RankTable(head(vc, top_n), "Especie", "Registros") :
        vc \in value_counts(Column(t, "Especie"))}

\* create_top_species_chart (visualization.py): the tables it may plot.
create_top_species_chart(t, top_n) ==
    {RankTable(head(vc, top_n), "Especie", "Número de registros") :
        vc \in value_counts(Column(t, "Especie"))}

(* ----------------------------- spatial join ---------------------------- *)
Located(pt) == NotNull(pt.x) /\ NotNull(pt.y)
Coord(pt) == <<pt.x[1], pt.y[1]>>

\* The spatial predicate between a point cell and a polygon cell: a missing
\* geometry and a point with a NaN coordinate match nothing; "intersects"
\* takes the interior and the border, "within" the interior only.
Matches(point, polygon, predicate) ==
    /\ NotNull(point)
    /\ NotNull(polygon)
    /\ Located(point[1])
    /\ IF predicate = "intersects"
       THEN Coord(point[1]) \in polygon[1].interior \cup polygon[1].border
       ELSE Coord(point[1]) \in polygon[1].interior

AllPairs(n, m) ==
    [k \in 1..(n * m) |-> <<((k - 1) \div m) + 1, ((k - 1) % m) + 1>>]

\* gpd.sjoin(left, right, how="inner", predicate=...): ValueError when a
\* frame is no GeoDataFrame; otherwise one row per matching pair, the left
\* row's columns and label, index_right, and the right row's columns but its
\* geometry.  Frames of different CRS get a warning only: the predicate is
\* evaluated on the coordinates as they are.
sjoin(left, right, predicate) ==
    LET pairs == SelectSeq(AllPairs(Len(left.rows), Len(right.rows)),
                           LAMBDA p : Matches(left.rows[p[1]]["geometry"],
                                              right.rows[p[2]]["geometry"], predicate))
        others == right.columns \ {"geometry"}
    IN  IF ~left.geo \/ ~right.geo
        THEN Raise("ValueError")
        ELSE Ok([columns |-> left.columns \cup {"index_right"} \cup others,
                 index |-> [k \in 1..Len(pairs) |-> left.index[pairs[k][1]]],
                 rows |-> [k \in 1..Len(pairs) |->
                            left.rows[pairs[k][1]]
                            @@ ("index_right" :> Some(right.index[pairs[k][2]]))
                            @@ [c \in others |-> right.rows[pairs[k][2]][c]]],
                 crs |-> left.crs,
                 geo |-> TRUE])

\* Series.count(): the number of non-null cells.  (A ranking by rows, not by
\* species, would use it in place of nunique.)
count_rows(cells) == Cardinality({i \in DOMAIN cells : NotNull(cells[i])})

\* nunique(dropna=False): a null cell counts as one more value.
nunique_keepna(cells) ==
    Cardinality({cells[i] : i \in DOMAIN cells})

\* Series.nunique(): the number of distinct non-null values of a sequence
\* of cells.
nunique(cells) ==
    Cardinality({cells[i][1] : i \in {j \in DOMAIN cells : NotNull(cells[j])}})

\* The cells of column col in the rows of t whose key is k, in row order.
GroupCells(t, key, k, col) ==
    LET members == SelectSeq(Positions(Len(t.rows)), LAMBDA i : t.rows[i][key] = Some(k))
    IN  [n \in 1..Len(members) |-> t.rows[members[n]][col]]

\* joined.groupby(key)[col].nunique(): per non-null key, the number of
\* distinct non-null values of col among the rows of that key.
GroupByNunique(t, key, col) ==
    [k \in Unique(Column(t, key)) |-> nunique(GroupCells(t, key, k, col))]

\* countries.merge(right=counts, on=key, how="left"): every left row once (the
\* keys of counts are unique), the count of its key or NaN, a fresh index.
MergeLeft(t, counts, key, name) ==
    [columns |-> t.columns \cup {name},
     index |-> [i \in 1..Len(t.rows) |-> i - 1],
     rows |-> [i \in 1..Len(t.rows) |->
                t.rows[i] @@
                (name :> IF NotNull(t.rows[i][key]) /\ t.rows[i][key][1] \in DOMAIN counts
                         THEN Some(counts[t.rows[i][key][1]])
                         ELSE Null)],
     crs |-> t.crs,
     geo |-> t.geo]

\* t[col] = t[col].fillna(v)
fillna(t, col, v) ==
    [t EXCEPT !.rows = [i \in 1..Len(t.rows) |->
                          [t.rows[i] EXCEPT ![col] = IF IsNull(@) THEN Some(v) ELSE @]]]

\* dropna that drops no row.
dropna_nothing(t, col) == t

\* t.dropna(subset=[col])
dropna(t, col) == BoolIndex(t, [i \in 1..Len(t.rows) |-> NotNull(t.rows[i][col])])

\* Series.min() / Series.max() of a column: NaN when no cell has a value.
ColumnValues(t, col) == Unique(Column(t, col))
ColumnMin(t, col) ==
    IF ColumnValues(t, col) = {} THEN Null
    ELSE Some(CHOOSE v \in ColumnValues(t, col) : \A w \in ColumnValues(t, col) : v <= w)
ColumnMax(t, col) ==
    IF ColumnValues(t, col) = {} THEN Null
    ELSE Some(CHOOSE v \in ColumnValues(t, col) : \A w \in ColumnValues(t, col) : v >= w)

\* float(n), held as the number of halves: n is 2n halves, n - 0.5 is 2n - 1.
Float(cell) == IF IsNull(cell) THEN Null ELSE Some(2 * cell[1])

\* cm.LinearColormap(..., vmin=vmin, vmax=vmax): the domain of the scale.
LinearColormap(vmin, vmax) == [vmin |-> vmin, vmax |-> vmax]

NoColormap == LinearColormap(Null, Null)

NoMap == [signal |-> "none", countries |-> EmptyTable, markers |-> << >>,
          colormap |-> NoColormap]

\* app.py 220-242: the domain of the colour scale; when the least and the
\* largest count are equal it is [0, 1] for zero and half a unit wider on
\* each side otherwise.  NaN is equal to nothing.
scale_domain(vmin, vmax) ==
    IF NotNull(vmin) /\ vmin = vmax
    THEN IF vmin = Float(Some(0))
         THEN LinearColormap(Float(Some(0)), Float(Some(1)))
         ELSE LinearColormap(Some(vmin[1] - 1), Some(vmax[1] + 1))
    ELSE LinearColormap(vmin, vmax)

\* create_choropleth_map (app.py): st.error when the join raises, st.warning
\* and nothing else when the join is empty, otherwise the map of the merged
\* boundary table, with its colour scale.
create_choropleth_map(t, countries) ==
    LET joined == sjoin(t, countries, "intersects")
    IN  IF Raised(joined)
        THEN [NoMap EXCEPT !.signal = "error"]
        ELSE IF ValueOf(joined).rows = << >>
        THEN [NoMap EXCEPT !.signal = "warning"]
        ELSE LET species_counts == GroupByNunique(ValueOf(joined), "NAME", "Especie")
                 countries_merged ==
                     GeoDataFrame(MergeLeft(countries, species_counts, "NAME",
                                            "Especies únicas"),
                                  countries.crs)
                 shown == dropna(fillna(countries_merged, "Especies únicas", 0),
                                 "geometry")
             IN  [NoMap EXCEPT
                    !.signal = "map",
                    !.countries = shown,
                    !.colormap =
                        scale_domain(Float(ColumnMin(shown, "Especies únicas")),
                                     Float(ColumnMax(shown, "Especies únicas")))]

\* create_choropleth_map (visualization.py): the map of the merged boundary
\* table, its colour scale over the least and the largest count as they are;
\* an exception of the join goes to the caller.
viz_create_choropleth_map(t, country_data) ==
    LET joined == sjoin(t, country_data, "within")
    IN  IF Raised(joined)
        THEN joined
        ELSE LET species_by_country == GroupByNunique(ValueOf(joined), "ADMIN", "Especie")
                 country_data_merged ==
                     fillna(MergeLeft(country_data, species_by_country, "ADMIN",
                                      "num_species"),
                            "num_species", 0)
             IN  Ok([NoMap EXCEPT
                       !.signal = "map",
                       !.countries = country_data_merged,
                       !.colormap =
                           LinearColormap(
                               Float(ColumnMin(country_data_merged, "num_species")),
                               Float(ColumnMax(country_data_merged, "num_species")))])

(* ------------------------------ point map ------------------------------ *)
\* create_point_map (app.py): one marker per row, but the rows whose
\* geometry is None or is_empty.  Whether a point with a NaN coordinate
\* is_empty depends on the geometry library's build: nan_is_empty.
create_point_map(t, nan_is_empty) ==
    LET shown == SelectSeq(Positions(Len(t.rows)),
                           LAMBDA i : /\ NotNull(t.rows[i]["geometry"])
                                      /\ ~(nan_is_empty /\ ~Located(t.rows[i]["geometry"][1])))
    IN  [NoMap EXCEPT
           !.signal = "points",
           !.markers = [k \in 1..Len(shown) |->
                          [location |-> <<t.rows[shown[k]]["geometry"][1].y,
                                          t.rows[shown[k]]["geometry"][1].x>>,
                           Especie |-> t.rows[shown[k]]["Especie"]]]]

\* create_point_map (visualization.py): data["decimalLatitude"] and
\* data["decimalLongitude"] raise KeyError when the column is missing,
\* row.Especie raises AttributeError on the first row when it is; otherwise
\* one location per row.
viz_create_point_map(t) ==
    IF ~({"decimalLatitude", "decimalLongitude"} \subseteq t.columns)
    THEN Raise(KeyError)
    ELSE IF t.rows # << >> /\ "Especie" \notin t.columns
    THEN Raise("AttributeError")
    ELSE Ok([NoMap EXCEPT
               !.signal = "points",
               !.markers = [k \in 1..Len(t.rows) |->
                              [location |-> <<t.rows[k]["decimalLatitude"],
                                              t.rows[k]["decimalLongitude"]>>,
                               Especie |-> t.rows[k]["Especie"]]]])

(* -------------------------- metrics dashboard -------------------------- *)
\* a / b * 100 in Python: ZeroDivisionError when b is 0, otherwise the
\* quotient, held as the fraction 100 a / b.
Percent(a, b) ==
    IF b = 0 THEN Raise("ZeroDivisionError") ELSE Ok([num |-> 100 * a, den |-> b])

\* raw_data.dropna(subset=["decimalLatitude", "decimalLongitude"])
valid_coords(raw_data) == dropna(dropna(raw_data, "decimalLatitude"), "decimalLongitude")

\* The quality metric without its "if len(raw_data) > 0 else 0".
quality_pct_unguarded(raw_data) ==
    Percent(Len(valid_coords(raw_data).rows), Len(raw_data.rows))

\* components.py 72-73: the share of the raw rows with both coordinates, 0
\* for an empty raw table.
quality_pct(raw_data) ==
    IF Len(raw_data.rows) > 0
    THEN Percent(Len(valid_coords(raw_data).rows), Len(raw_data.rows))
    ELSE Ok([num |-> 0, den |-> 1])

\* render_metrics_dashboard: the four cards, or the exception of the join or
\* of the division.
render_metrics_dashboard(t, raw_data, country_data) ==
    LET joined == sjoin(t, country_data, "within")
        quality == quality_pct(raw_data)
    IN  IF Raised(joined) THEN joined
        ELSE IF Raised(quality) THEN quality
        ELSE Ok([total |-> Len(t.rows),
                 unique_species |-> nunique(Column(t, "Especie")),
                 unique_countries |-> nunique(Column(ValueOf(joined), "ADMIN")),
                 quality_pct |-> ValueOf(quality)])

(* ---------------------------- columns read ----------------------------- *)
\* The consumers of the cleaned table and of the boundary table.
Consumers ==
    {"filter", "compute_species_counts", "create_point_map", "create_choropleth_map",
     "viz_create_point_map", "viz_create_choropleth_map", "create_top_species_chart",
     "render_metrics_dashboard"}

\* The columns a consumer reads by name from the occurrence table it is given
\* (data) and from the boundary table it is given (countries).
ColumnsRead(consumer) ==
    CASE consumer = "filter" ->
            [data |-> {"Especie"}, countries |-> {}]
      [] consumer = "compute_species_counts" ->
            [data |-> {"Especie"}, countries |-> {}]
      [] consumer = "create_point_map" ->
            [data |-> {"geometry", "Especie"}, countries |-> {}]
      [] consumer = "create_choropleth_map" ->
            [data |-> {"geometry", "Especie"}, countries |-> {"geometry", "NAME"}]
      [] consumer = "viz_create_point_map" ->
            [data |-> {"decimalLatitude", "decimalLongitude", "Especie"},
             countries |-> {}]
      [] consumer = "viz_create_choropleth_map" ->
            [data |-> {"geometry", "Especie"}, countries |-> {"geometry", "ADMIN"}]
      [] consumer = "create_top_species_chart" ->
            [data |-> {"Especie"}, countries |-> {}]
      [] consumer = "render_metrics_dashboard" ->
            [data |-> {"geometry", "Especie"}, countries |-> {"geometry", "ADMIN"}]

(* ------------------------------- state --------------------------------- *)
VARIABLES
    crocFile,           \* the occurrence TSV
    countryFile,        \* the boundary file
    crocCache,          \* st.cache_data of load_crocodiles_data: Null or Some(table)
    countryCache,       \* st.cache_data of load_country_data: Null or Some(table)
    data,               \* main: the cleaned table
    selected_species,   \* main: the sidebar's species selection
    map_type,           \* main: the sidebar's map type
    filtered_data,      \* main: the filtered table
    species_counts,     \* main: the table of the bar chart
    map,                \* main: what the map section shows
    call                \* the last call of a function outside main's run

vars == <<crocFile, countryFile, crocCache, countryCache, data, selected_species,
          map_type, filtered_data, species_counts, map, call>>

files == <<crocFile, countryFile>>
caches == <<crocCache, countryCache>>
run == <<data, selected_species, map_type, filtered_data, species_counts, map>>

\* def compute_species_counts(data, top_n: int = 10)
DefaultTopN == 10

MapTypes == {"Coroplético", "Puntos"}

\* The files the dashboard is started on: the occurrence files with rows of
\* every kind over the boundary files that declare EPSG:4326, the files that
\* differ in the species only over one country, and the short files over
\* the boundary files of another or no CRS.
Inputs ==
    (GeneralFiles \X DeclaredFiles)
    \cup (RankFiles \X {[crs |-> Some("EPSG:4326"),
                         rows |-> BoundaryRows(1, 0, Some("EPSG:4326"))]})
    \cup (ShortFiles \X OtherCrsFiles)

\* A call outside main's run: the function, its arguments and its outcome.
Call(fn, t, country_data, top_n, result) ==
    [fn |-> fn, data |-> t, country_data |-> country_data, top_n |-> top_n,
     result |-> result]

NoCall == Call("none", EmptyTable, EmptyTable, 0, Ok(EmptyTable))

Init ==
    /\ \E input \in Inputs : crocFile = input[1] /\ countryFile = input[2]
    /\ crocCache = Null
    /\ countryCache = Null
    /\ data = EmptyTable
    /\ selected_species = {}
    /\ map_type = "Coroplético"
    /\ filtered_data = EmptyTable
    /\ species_counts = EmptyTable
    /\ map = NoMap
    /\ call = NoCall

Rendered == NotNull(crocCache)

\* A cache that holds the very object the run works on, and a run that drops
\* the rows without geometry from that object.
CacheStoreShared(raw, countries) ==
    /\ crocCache' = Some(raw)
    /\ countryCache' = Some(dropna(countries, "geometry"))

\* st.cache_data keeps what the loaders returned: main cleans a copy
\* (app.py 76) and create_choropleth_map writes to the merged table it has
\* built (app.py 198-215), never to the cached tables.
CacheStore(raw, countries) ==
    /\ crocCache' = Some(raw)
    /\ countryCache' = Some(countries)

\* One run of main(): the loads (cached after the first run), the cleaning,
\* the sidebar's values, the filter, the bar chart and the map.  The first
\* run sees the widgets' defaults: no species selected, the first map type.
Main ==
    LET raw == IF IsNull(crocCache) THEN load_crocodiles_data(crocFile) ELSE crocCache[1]
        countries == IF IsNull(countryCache) THEN load_country_data(countryFile)
                     ELSE countryCache[1]
        cleaned == clean_crocodile_data(raw)
    IN  /\ call = NoCall
        /\ ~Raised(cleaned)
        /\ CacheStore(raw, countries)
        /\ data' = ValueOf(cleaned)
        /\ selected_species' \in SUBSET Unique(Column(data', "Especie"))
        /\ map_type' \in MapTypes
        /\ ~Rendered => selected_species' = {} /\ map_type' = "Coroplético"
        /\ LET filtered == FilterSpecies(data', selected_species')
           IN  filtered_data' = IF filtered.geo THEN filtered
                                ELSE GeoDataFrame(filtered, data'.crs)
        /\ species_counts' \in compute_species_counts(DataFrame(filtered_data'),
                                                      DefaultTopN)
        /\ IF map_type' = "Coroplético"
           THEN map' = create_choropleth_map(filtered_data', countries)
           ELSE \E nan_is_empty \in BOOLEAN :
                    map' = create_point_map(filtered_data', nan_is_empty)
        /\ call' = NoCall
        /\ UNCHANGED files

\* clean_crocodile_data on main's cleaned table.
CallClean ==
    /\ Rendered
    /\ call = NoCall
    /\ call' = Call("clean_crocodile_data", data, EmptyTable, 0,
                     clean_crocodile_data(data))
    /\ UNCHANGED <<files, caches, run>>

\* compute_species_counts(filtered_data, top_n) for a top_n >= 0.
CallComputeSpeciesCounts ==
    /\ Rendered
    /\ call = NoCall
    /\ \E top_n \in 0..MaxTopN :
         \E counts \in compute_species_counts(filtered_data, top_n) :
            call' = Call("compute_species_counts", filtered_data, EmptyTable, top_n,
                         Ok(counts))
    /\ UNCHANGED <<files, caches, run>>

\* visualization.create_top_species_chart(filtered_data, top_n) for a top_n >= 0.
CallCreateTopSpeciesChart ==
    /\ Rendered
    /\ call = NoCall
    /\ \E top_n \in 0..MaxTopN :
         \E top_species \in create_top_species_chart(filtered_data, top_n) :
            call' = Call("create_top_species_chart", filtered_data, EmptyTable, top_n,
                         Ok(top_species))
    /\ UNCHANGED <<files, caches, run>>

\* The frames a caller has at hand for a map: the filtered table, as the
\* GeoDataFrame it is or as the pd.DataFrame main makes of it for the bar
\* chart; the boundary table, as load_country_data returns it or as
\* gpd.read_file reads it.
PointFrames == {filtered_data, DataFrame(filtered_data)}
BoundaryFrames == {countryCache[1], read_file(countryFile)}

\* app.create_choropleth_map(t, countries)
CallChoropleth ==
    /\ Rendered
    /\ call = NoCall
    /\ \E t \in PointFrames, countries \in BoundaryFrames :
          call' = Call("create_choropleth_map", t, countries, 0,
                       Ok(create_choropleth_map(t, countries)))
    /\ UNCHANGED <<files, caches, run>>

\* visualization.create_choropleth_map(t, country_data)
CallVizChoropleth ==
    /\ Rendered
    /\ call = NoCall
    /\ \E t \in PointFrames, country_data \in BoundaryFrames :
          call' = Call("viz_create_choropleth_map", t, country_data, 0,
                       viz_create_choropleth_map(t, country_data))
    /\ UNCHANGED <<files, caches, run>>

\* visualization.create_point_map(filtered_data)
CallVizPointMap ==
    /\ Rendered
    /\ call = NoCall
    /\ call' = Call("viz_create_point_map", filtered_data, EmptyTable, 0,
                     viz_create_point_map(filtered_data))
    /\ UNCHANGED <<files, caches, run>>

\* components.render_metrics_dashboard(filtered_data, raw_data, country_data),
\* raw_data the table load_crocodiles_data returned.
CallMetricsDashboard ==
    /\ Rendered
    /\ call = NoCall
    /\ call' = Call("render_metrics_dashboard", filtered_data, countryCache[1], 0,
                     render_metrics_dashboard(filtered_data, crocCache[1],
                                              countryCache[1]))
    /\ UNCHANGED <<files, caches, run>>

\* The call has returned and its result is let go: the script is idle until
\* the next run or the next call.
CallReturn ==
    /\ call # NoCall
    /\ call' = NoCall
    /\ UNCHANGED <<files, caches, run>>

Next ==
    \/ Main
    \/ CallClean
    \/ CallComputeSpeciesCounts
    \/ CallCreateTopSpeciesChart
    \/ CallChoropleth
    \/ CallVizChoropleth
    \/ CallVizPointMap
    \/ CallMetricsDashboard
    \/ CallReturn

Spec == Init /\ [][Next]_vars

(* ------------------------------- claims -------------------------------- *)
RowNumbers(t) == 1..Len(t.rows)

\* C1: the table the cleaning returns has no row with a null species
\* (Especie), a null latitude (Latitud) or a null longitude (Longitud).
C1_CleanedHasNoNulls ==
    Rendered =>
        \A i \in RowNumbers(data) :
            /\ NotNull(data.rows[i]["Especie"])
            /\ NotNull(data.rows[i]["Latitud"])
            /\ NotNull(data.rows[i]["Longitud"])

\* C2: cleaning an already-cleaned table succeeds and returns that table:
\* clean(clean(x)) = clean(x).
C2_CleanIdempotent ==
    call.fn = "clean_crocodile_data" =>
        /\ ~Raised(call.result)
        /\ ValueOf(call.result) = data

\* C3: with an empty species selection the filtered table is the cleaned
\* table itself: same columns, same labels, same rows in the same order.
C3_EmptySelectionIsNoFilter ==
    (Rendered /\ selected_species = {}) =>
        /\ filtered_data.columns = data.columns
        /\ filtered_data.index = data.index
        /\ filtered_data.rows = data.rows

\* A run with an empty selection over a table of several rows, one of them
\* with no species.
C3_Witness ==
    /\ Rendered
    /\ selected_species = {}
    /\ Len(data.rows) >= 2
    /\ \E i \in RowNumbers(data) : IsNull(data.rows[i]["Especie"])
    /\ Len(filtered_data.rows) = Len(data.rows)

\* The labels of the cleaned rows whose species is selected.  The loader
\* labels row i of the file i - 1 and cleaning keeps the labels.
SelectedLabels ==
    {i - 1 : i \in {j \in RowNumbers(data) :
                       /\ NotNull(data.rows[j]["Especie"])
                       /\ data.rows[j]["Especie"][1] \in selected_species}}

\* C4: with a non-empty selection the filtered table holds exactly the rows
\* of the cleaned table whose species is selected, each once, in their
\* original relative order, and never more rows than the cleaned table.
C4_FilterKeepsExactlySelected ==
    (Rendered /\ selected_species # {}) =>
        /\ filtered_data.columns = data.columns
        /\ Len(filtered_data.index) = Len(filtered_data.rows)
        /\ {filtered_data.index[k] : k \in RowNumbers(filtered_data)} = SelectedLabels
        /\ \A k \in RowNumbers(filtered_data) :
              /\ filtered_data.rows[k] = data.rows[filtered_data.index[k] + 1]
              /\ filtered_data.rows[k]["Especie"][1] \in selected_species
        /\ \A k, l \in RowNumbers(filtered_data) :
              k < l => filtered_data.index[k] < filtered_data.index[l]
        /\ Len(filtered_data.rows) <= Len(data.rows)

\* A non-empty selection that keeps two rows and drops one.
C4_Witness ==
    /\ Rendered
    /\ selected_species # {}
    /\ Len(filtered_data.rows) = 2
    /\ Len(data.rows) = 3

(* ---------------------- claims on the aggregation ---------------------- *)
Countries == countryCache[1]

\* The rows of the filtered table that the predicate joins to a geometry.
JoinedRows(polygon, predicate) ==
    {j \in RowNumbers(filtered_data) :
        Matches(filtered_data.rows[j]["geometry"], polygon, predicate)}

\* The species identifiers among those rows.
JoinedSpecies(polygon, predicate) ==
    {filtered_data.rows[j]["Especie"][1] :
        j \in {r \in JoinedRows(polygon, predicate) :
                 NotNull(filtered_data.rows[r]["Especie"])}}

\* The two aggregations, called with a boundary set of at least one country,
\* and what each has produced, if anything.
AppAggregated == Rendered /\ map_type = "Coroplético" /\ Countries.rows # << >>
AppProduced == AppAggregated /\ map.signal = "map"
VizAggregated ==
    /\ call.fn = "viz_create_choropleth_map"
    /\ call.data = filtered_data
    /\ call.country_data = Countries
    /\ Countries.rows # << >>
VizMap == ValueOf(call.result).countries
VizProduced == VizAggregated /\ ~Raised(call.result)

\* out holds every row of the boundary table once, and 0 for a country no
\* occurrence is joined to.
EveryCountryOnce(out, key, cnt, predicate) ==
    /\ Len(out.rows) = Len(Countries.rows)
    /\ \A c \in RowNumbers(Countries) :
          Cardinality({i \in RowNumbers(out) : out.rows[i][key] = Countries.rows[c][key]}) = 1
    /\ \A i \in RowNumbers(out) :
          JoinedRows(out.rows[i]["geometry"], predicate) = {} => out.rows[i][cnt] = Some(0)

\* C5: the per-country richness output holds every country of the boundary
\* set exactly once; a country with no matched occurrence has count 0.
C5_EveryCountryExactlyOnce ==
    /\ AppAggregated =>
          /\ map.signal = "map"
          /\ EveryCountryOnce(map.countries, "NAME", "Especies únicas", "intersects")
    /\ VizAggregated =>
          /\ ~Raised(call.result)
          /\ EveryCountryOnce(VizMap, "ADMIN", "num_species", "within")

NoMatch(predicate) ==
    \A c \in RowNumbers(Countries) :
        JoinedRows(Countries.rows[c]["geometry"], predicate) = {}

AllCountriesZero(out, key, cnt) ==
    /\ Len(out.rows) = Len(Countries.rows)
    /\ \A i \in RowNumbers(out) :
          /\ out.rows[i][key] = Countries.rows[i][key]
          /\ out.rows[i][cnt] = Some(0)

\* C6: when no occurrence is joined to any country the aggregation still
\* produces its output: every country of the boundary set, each with 0.
C6_EmptyJoinAllCountriesZero ==
    /\ (AppAggregated /\ NoMatch("intersects")) =>
          /\ map.signal = "map"
          /\ AllCountriesZero(map.countries, "NAME", "Especies únicas")
    /\ (VizAggregated /\ NoMatch("within")) =>
          /\ ~Raised(call.result)
          /\ AllCountriesZero(VizMap, "ADMIN", "num_species")

CountsDistinctSpecies(out, cnt, predicate) ==
    \A i \in RowNumbers(out) :
        out.rows[i][cnt] =
            Some(Cardinality(JoinedSpecies(out.rows[i]["geometry"], predicate)))

\* C7: a country's count is the number of distinct species identifiers among
\* the occurrences joined to it, not the number of those occurrences.
C7_CountIsDistinctSpecies ==
    /\ AppProduced => CountsDistinctSpecies(map.countries, "Especies únicas", "intersects")
    /\ VizProduced => CountsDistinctSpecies(VizMap, "num_species", "within")

\* A country with two occurrences of one species, counted 1.
C7_Witness ==
    /\ AppProduced
    /\ \E i \in RowNumbers(map.countries) :
          /\ Cardinality(JoinedRows(map.countries.rows[i]["geometry"], "intersects")) >= 2
          /\ map.countries.rows[i]["Especies únicas"] = Some(1)

DistinctSpecies ==
    {filtered_data.rows[j]["Especie"][1] :
        j \in {r \in RowNumbers(filtered_data) : NotNull(filtered_data.rows[r]["Especie"])}}

CountsWithinBounds(out, cnt) ==
    \A i \in RowNumbers(out) :
        /\ NotNull(out.rows[i][cnt])
        /\ 0 <= out.rows[i][cnt][1]
        /\ out.rows[i][cnt][1] <= Cardinality(DistinctSpecies)

\* C8: every country's count c satisfies 0 <= c <= the number of distinct
\* species of the (possibly filtered) occurrence set.
C8_CountWithinDistinctSpecies ==
    /\ AppProduced => CountsWithinBounds(map.countries, "Especies únicas")
    /\ VizProduced => CountsWithinBounds(VizMap, "num_species")

\* One country reaches the bound with two species while another has 0.
C8_Witness ==
    /\ AppProduced
    /\ Cardinality(DistinctSpecies) = 2
    /\ \E i, j \in RowNumbers(map.countries) :
          /\ map.countries.rows[i]["Especies únicas"] = Some(2)
          /\ map.countries.rows[j]["Especies únicas"] = Some(0)

(* ------------------------ claims on the ranking ------------------------ *)
RowsOfSpecies(v) ==
    {j \in RowNumbers(filtered_data) : filtered_data.rows[j]["Especie"] = Some(v)}

\* t ranks the species of the filtered table: one row per species with the
\* number of its rows, counts never increasing, the top Min(n, species) only.
IsRanking(t, key, cnt, n) ==
    /\ Len(t.rows) = Min(n, Cardinality(DistinctSpecies))
    /\ \A i \in RowNumbers(t) :
          /\ NotNull(t.rows[i][key])
          /\ t.rows[i][key][1] \in DistinctSpecies
          /\ t.rows[i][cnt] = Some(Cardinality(RowsOfSpecies(t.rows[i][key][1])))
    /\ \A i, j \in RowNumbers(t) :
          i < j => /\ t.rows[i][key] # t.rows[j][key]
                   /\ t.rows[i][cnt][1] >= t.rows[j][cnt][1]
    /\ \A i \in RowNumbers(t) :
          \A v \in DistinctSpecies \ {t.rows[k][key][1] : k \in RowNumbers(t)} :
              Cardinality(RowsOfSpecies(v)) <= t.rows[i][cnt][1]

\* C9: for every table and every n >= 0 the species ranking has one row per
\* species with its number of rows, sorted by count descending, with exactly
\* min(n, distinct species) rows: none for n = 0 and for an empty table.
C9_RankingTopN ==
    /\ Rendered => IsRanking(species_counts, "Especie", "Registros", DefaultTopN)
    /\ call.fn = "compute_species_counts" =>
          IsRanking(ValueOf(call.result), "Especie", "Registros", call.top_n)
    /\ call.fn = "create_top_species_chart" =>
          IsRanking(ValueOf(call.result), "Especie", "Número de registros", call.top_n)

\* Two species, one with two rows and one with one, cut to the top 1.
C9_Witness ==
    /\ call.fn = "compute_species_counts"
    /\ call.top_n = 1
    /\ Len(filtered_data.rows) = 3
    /\ Cardinality(DistinctSpecies) = 2
    /\ Len(ValueOf(call.result).rows) = 1
    /\ ValueOf(call.result).rows[1]["Registros"] = Some(2)

FirstSeen(v) == CHOOSE i \in RowsOfSpecies(v) : \A j \in RowsOfSpecies(v) : i <= j

TiesInFirstSeenOrder(t, key, cnt) ==
    /\ \A i, j \in RowNumbers(t) :
          (i < j /\ t.rows[i][cnt] = t.rows[j][cnt]) =>
              FirstSeen(t.rows[i][key][1]) < FirstSeen(t.rows[j][key][1])
    /\ \A i \in RowNumbers(t) :
          \A v \in DistinctSpecies \ {t.rows[k][key][1] : k \in RowNumbers(t)} :
              Cardinality(RowsOfSpecies(v)) = t.rows[i][cnt][1] =>
                  FirstSeen(t.rows[i][key][1]) < FirstSeen(v)

C11_BoundaryCrsNormalised ==
    Rendered =>
        /\ Countries.crs = Some("EPSG:4326")
        /\ Countries.crs = crocCache[1].crs
        /\ Len(Countries.rows) = Len(countryFile.rows)
        /\ IsNull(countryFile.crs) => Countries.rows = countryFile.rows
        /\ (NotNull(countryFile.crs) /\ countryFile.crs # Some("EPSG:4326")) =>
              \A i \in RowNumbers(Countries) :
                 /\ Countries.rows[i]["NAME"] = countryFile.rows[i]["NAME"]
                 /\ Countries.rows[i]["ADMIN"] = countryFile.rows[i]["ADMIN"]
                 /\ Countries.rows[i]["geometry"] = Some(Polygon(i))

\* A boundary file of two countries in EPSG:3857 has been loaded and the
\* coordinates of the loaded table are not those of the file.
C11_Witness ==
    /\ Rendered
    /\ countryFile.crs = Some("EPSG:3857")
    /\ Len(Countries.rows) = 2
    /\ \A i \in RowNumbers(Countries) :
          Countries.rows[i]["geometry"] # countryFile.rows[i]["geometry"]

(* --------------------- claims on the join's outcome -------------------- *)
ChoroplethCalled == call.fn \in {"create_choropleth_map", "viz_create_choropleth_map"}

\* The call hands the aggregation points and polygons, each table with a
\* declared CRS, and the two differ.
CrsMismatch ==
    /\ ChoroplethCalled
    /\ call.data.geo /\ call.data.rows # << >>
    /\ call.country_data.geo /\ call.country_data.rows # << >>
    /\ NotNull(call.data.crs) /\ NotNull(call.country_data.crs)
    /\ call.data.crs # call.country_data.crs

\* C12: when the occurrence points and the country polygons carry different
\* coordinate reference systems, the aggregation raises a SpatialJoinError to
\* its caller: it never goes on to evaluate the join and to return a result.
C12_CrsMismatchRaises ==
    CrsMismatch =>
        /\ Raised(call.result)
        /\ call.result.error = "SpatialJoinError"

\* The join the called aggregation evaluates on its two arguments.
CalledJoin ==
    sjoin(call.data, call.country_data,
          IF call.fn = "create_choropleth_map" THEN "intersects" ELSE "within")
JoinFailed(joined) == Raised(joined)
JoinEmpty(joined) == ~Raised(joined) /\ ValueOf(joined).rows = << >>

\* C13: an empty join is reported as an empty state (a warning), which is
\* not the error signal: when the join is empty and nothing failed the outcome
\* is the warning and never the error; when the join fails the outcome is the
\* error (shown by app.py, raised to the caller by visualization.py) and
\* never the empty state.  For main's map and for both aggregations, over a
\* boundary table with a country at least.
C13_EmptyStateIsNotError ==
    /\ AppAggregated =>
          /\ JoinEmpty(sjoin(filtered_data, Countries, "intersects")) =>
                map.signal = "warning"
          /\ JoinFailed(sjoin(filtered_data, Countries, "intersects")) =>
                map.signal = "error"
    /\ (call.fn = "create_choropleth_map" /\ call.country_data.rows # << >>) =>
          /\ JoinEmpty(CalledJoin) => ValueOf(call.result).signal = "warning"
          /\ JoinFailed(CalledJoin) => ValueOf(call.result).signal = "error"
    /\ (call.fn = "viz_create_choropleth_map" /\ call.country_data.rows # << >>) =>
          /\ JoinEmpty(CalledJoin) =>
                ~Raised(call.result) /\ ValueOf(call.result).signal = "warning"
          /\ JoinFailed(CalledJoin) => Raised(call.result)

(* ---------------------- claims on the colour scale --------------------- *)
\* The domain the claim gives the scale of a drawn map m whose counts are in
\* column col, in halves: [0, 1] when every count is 0, half a unit wider on
\* each side when the counts are equal and not 0, [min, max] otherwise.
DomainAsClaimed(m, col) ==
    LET lo == ColumnMin(m.countries, col)[1]
        hi == ColumnMax(m.countries, col)[1]
    IN  IF lo < hi THEN [vmin |-> Some(2 * lo), vmax |-> Some(2 * hi)]
        ELSE IF lo = 0 THEN [vmin |-> Some(0), vmax |-> Some(2)]
        ELSE [vmin |-> Some(2 * lo - 1), vmax |-> Some(2 * hi + 1)]

ScaleWidened(m, col) ==
    /\ m.colormap = DomainAsClaimed(m, col)
    /\ m.colormap.vmin[1] < m.colormap.vmax[1]

\* C14: the colour scale of every drawn choropleth has vmin < vmax; when the
\* least and the largest per-country count are equal its domain is widened
\* ([0, 1] for zero, [min - 0.5, max + 0.5] otherwise) and when they differ it
\* is exactly [min, max].  For main's map and for both aggregations.
C14_ScaleDomainNotDegenerate ==
    /\ AppProduced => ScaleWidened(map, "Especies únicas")
    /\ (call.fn = "create_choropleth_map" /\ ValueOf(call.result).signal = "map") =>
          ScaleWidened(ValueOf(call.result), "Especies únicas")
    /\ (call.fn = "viz_create_choropleth_map" /\ ~Raised(call.result)
        /\ call.country_data.rows # << >>) =>
          ScaleWidened(ValueOf(call.result), "num_species")

(* -------------------- claims on the spatial predicate ------------------ *)
MetricsCalled == call.fn = "render_metrics_dashboard" /\ ~Raised(call.result)

\* The countries of the boundary table to which the predicate joins a row of
\* the filtered table.
CountriesJoined(predicate) ==
    {i \in RowNumbers(Countries) :
        JoinedRows(Countries.rows[i]["geometry"], predicate) # {}}

\* C15: the choropleth aggregation joins with "intersects" (a point on a
\* border counts for every country whose boundary holds it) and the
\* countries-with-presence metric joins with "within" (a point on a border
\* counts for no country); every choropleth, main's and
\* visualization.py's, uses the same predicate.
C15_PredicatePerConsumer ==
    /\ AppProduced => CountsDistinctSpecies(map.countries, "Especies únicas", "intersects")
    /\ VizProduced => CountsDistinctSpecies(VizMap, "num_species", "intersects")
    /\ (MetricsCalled /\ Countries.rows # << >>) =>
          ValueOf(call.result).unique_countries =
              Cardinality(CountriesJoined("within"))

(* ------------------------ claims on column names ----------------------- *)
\* C16: the names the cleaner gives its columns and the country-name key of
\* the boundary table are the names every consumer uses: each column a
\* consumer (filter, ranking, point maps, choropleth aggregations, metrics
\* dashboard) reads from the cleaned table or from the boundary table is a
\* column of that table, so no consumer fails on a missing column.
C16_ConsumersReadExistingColumns ==
    /\ Rendered =>
          \A consumer \in Consumers :
             /\ ColumnsRead(consumer).data \subseteq data.columns
             /\ ColumnsRead(consumer).countries \subseteq Countries.columns
    /\ call.fn \in Consumers =>
          call.result.error \notin {KeyError, "AttributeError"}

WithGeometry(countries) ==
    SelectSeq(Positions(Len(countries.rows)),
              LAMBDA i : NotNull(countries.rows[i]["geometry"]))

\* The drawn table m holds the rows of the boundary table that have a
\* geometry, all of them, in order, each under the label the merge gave it.
DroppedAfterMerge(m, countries) ==
    LET kept == WithGeometry(countries)
    IN  /\ Len(m.countries.rows) = Len(kept)
        /\ \A k \in 1..Len(kept) :
              /\ NotNull(m.countries.rows[k]["geometry"])
              /\ m.countries.rows[k]["geometry"] = countries.rows[kept[k]]["geometry"]
              /\ m.countries.rows[k]["NAME"] = countries.rows[kept[k]]["NAME"]
              /\ m.countries.index[k] = kept[k] - 1

C18_CachesFrozen ==
    [][/\ Rendered => (crocCache' = crocCache /\ countryCache' = countryCache)
       /\ Rendered' =>
             /\ crocCache' = Some(load_crocodiles_data(crocFile))
             /\ countryCache' = Some(load_country_data(countryFile))]_vars

\* A later run, with a species selected and the point map, over a boundary
\* table with a row without geometry and an occurrence table of two rows.
C18_Witness ==
    /\ Rendered
    /\ selected_species # {}
    /\ map_type = "Puntos"
    /\ Len(crocCache[1].rows) = 2
    /\ \E i \in RowNumbers(Countries) : IsNull(Countries.rows[i]["geometry"])

(* --------------------- claims on the quality metric -------------------- *)
\* The raw rows with a latitude and a longitude.
ValidRows(raw_data) ==
    {i \in RowNumbers(raw_data) :
        /\ NotNull(raw_data.rows[i]["decimalLatitude"])
        /\ NotNull(raw_data.rows[i]["decimalLongitude"])}

\* C19: the data-quality metric never divides by zero and is a percentage in
\* [0, 100]: 0 when the raw table is empty, otherwise 100 times the number of
\* raw rows with both coordinates over the number of raw rows.
C19_QualityIsPercentage ==
    call.fn = "render_metrics_dashboard" =>
        /\ ~Raised(call.result)
        /\ LET q == ValueOf(call.result).quality_pct
               n == Len(crocCache[1].rows)
               valid == Cardinality(ValidRows(crocCache[1]))
           IN  /\ q.den > 0
               /\ 0 <= q.num /\ q.num <= 100 * q.den
               /\ n = 0 => q.num = 0
               /\ n > 0 => q.num * n = 100 * valid * q.den

\* The dashboard over a raw table of two rows, one of them without a
\* coordinate: 50 %.
C19_Witness ==
    /\ MetricsCalled
    /\ Len(crocCache[1].rows) = 2
    /\ Cardinality(ValidRows(crocCache[1])) = 1
    /\ ValueOf(call.result).quality_pct.num = 50 * ValueOf(call.result).quality_pct.den

=============================================================================
